---- MODULE Spec2Model ----
(***************************************************************************)
(* The access-code store of xwgit-core.py: generate_access_code and        *)
(* verify_access_code over the codes file (~/.xwgit/codes.json).           *)
(*                                                                         *)
(* Spec      one invocation at a time: every call runs to completion.      *)
(* SpecRace  several command-line invocations run as separate processes    *)
(*           whose reads and writes of the codes file interleave.          *)
(* SpecFault one invocation at a time, with I/O errors of the codes file.  *)
(* SpecCli   the generate-code and init commands around the two calls.     *)
(* SpecDraw  one generate_access_code call, its code drawn char by char.   *)
(* SpecFinalize  the finalize command of xwgit-core.py.                    *)
(* SpecXwgit  xwgit.py: the fetch, add-tool and contribute commands.       *)
(* SpecBoot   xwgit_bootstrap.py: init, later invocations, finalize and    *)
(*            pr create over the saved config ~/.xwgit.ini.                *)
(***************************************************************************)
EXTENDS Integers, FiniteSets, Sequences, TLC

\* ---------------------------------------------------------------- values

\* Validity window added to the second clock reading (seconds).
Window == 86400

\* Access codes: 8 characters over A-Z0-9; two of the 36^8 possible draws.
Codes == {"AB12CD34", "ZZZZZZZZ"}

\* Owner names given on the command line.
Names == {"alice", "bob"}

\* Python's None.
None == "None"

\* Seconds the clock may advance in single steps past a multiple of LongTick.
MaxSec == 2

\* Number of long clock advances.
MaxDays == 2

\* Number of command-line invocations that run as concurrent processes.
NumProcs == 2

Procs == 1 .. NumProcs

\* A raised exception, as the outcome of a call.
Raised == "Raised"

\* A long clock advance: one second short of the validity window.
LongTick == Window - 1

\* No record was found for the code of the last call.
NoRecord == [name |-> None, created_at |-> -1, expires_at |-> -1]

\* The codes file does not exist.
NoFile == [exists |-> FALSE, valid |-> FALSE, text |-> {}]

\* No command has run yet.
NoCommand == [cmd |-> "none"]

\* No ~/.xwgit.ini yet: every option is missing (the empty value).
NoIni == [token |-> <<>>, owner |-> <<>>, name |-> <<>>]

\* No cmd_init has saved a config yet.
NoneValidated == [ok |-> FALSE, token |-> <<>>, owner |-> <<>>, repo |-> <<>>]

\* The empty dict.
EmptyCodes == [c \in {} |-> NoRecord]

VARIABLES
    file,      \* the codes file: exists, holds parseable JSON, its entries
    now,       \* the system clock, in seconds
    last,      \* the most recent completed call: op, arg, ret, raised, the clock
               \* reading t, the record found, and prev: the code the call before
               \* it issued (None when that was no successful generate)
    redeemed,  \* codes a verify call returned a name for, since they were last issued
    left,      \* codes a verify call has ever removed from the store
    pc,        \* per process: "idle", "open" (loaded, about to open the file for
               \* writing), "dump" (file truncated, about to write), "done"
    op,        \* per process: "generate" or "verify"
    arg,       \* per process: the name or the code it was called with
    local,     \* per process: its dict `codes`, as it will save it
    ret,       \* per process: the value it returns (returned once pc is "done")
    stale,     \* per process: the file was written by another process after
               \* this one loaded it
    cli,       \* the most recent command-line command: cmd, arg, what it did (log)
    draw,      \* the characters generate_access_code has drawn so far
    ini,       \* xwgit_bootstrap: the option values written to ~/.xwgit.ini
    validated  \* xwgit_bootstrap: the token, owner and repository name the last
               \* cmd_init that saved the config had validated, and whether it
               \* completed

procVars == <<pc, op, arg, local, ret, stale>>

bootVars == <<ini, validated>>

cliVars == <<cli, draw, bootVars>>

vars == <<file, now, last, redeemed, left, procVars, cliVars>>

\* ------------------------------------------------------------- the file

\* json.dump(codes, f, indent=2): one entry per key of the dict.
json_dump(codes) ==
    {[key |-> c, name |-> codes[c].name, created_at |-> codes[c].created_at,
      expires_at |-> codes[c].expires_at] : c \in DOMAIN codes}

\* json.load(f): the dict of the entries of the text.
json_load(text) ==
    [c \in {e.key : e \in text} |->
        LET e == CHOOSE x \in text : x.key = c
        IN  [name |-> e.name, created_at |-> e.created_at, expires_at |-> e.expires_at]]

\* load_access_codes raises: the file exists and json.load cannot parse it.
LoadRaises(f) == f.exists /\ ~f.valid

\* load_access_codes: the parsed file, or {} when the file does not exist.
load_access_codes(f) == IF f.exists THEN json_load(f.text) ELSE EmptyCodes

\* The file after open(CODES_FILE, "w"): created or truncated to nothing.
Truncated == [exists |-> TRUE, valid |-> FALSE, text |-> {}]

\* save_access_codes run to completion: the file holds exactly the dict.
save_access_codes(codes) == [exists |-> TRUE, valid |-> TRUE, text |-> json_dump(codes)]

\* The keys a load of the file yields.
Keys(f) == DOMAIN load_access_codes(f)

\* ------------------------------------------------------ generate_access_code

\* The record generate_access_code builds from two readings of the clock.
NewRecord(name, t1, t2) == [name |-> name, created_at |-> t1, expires_at |-> t2 + Window]

\* codes[code] = record
Put(codes, code, rec) ==
    [c \in DOMAIN codes \cup {code} |-> IF c = code THEN rec ELSE codes[c]]

\* Mutant: the whole dict is emptied instead of the one key.
Del_Clear(codes, code) == EmptyCodes

\* del codes[code]
Del(codes, code) == [c \in DOMAIN codes \ {code} |-> codes[c]]

\* Mutant: the record is stored under the owner name instead of the code.
GenerateCodes_KeyedByName(codes, name, code, t1, t2) ==
    Put(codes, name, NewRecord(name, t1, t2))

\* Mutant: the record holds the code where the owner name belongs.
GenerateCodes_NameIsCode(codes, name, code, t1, t2) ==
    Put(codes, code, NewRecord(code, t1, t2))

\* The dict generate_access_code saves.
GenerateCodes(codes, name, code, t1, t2) == Put(codes, code, NewRecord(name, t1, t2))

\* ------------------------------------------------------- verify_access_code

\* What verify_access_code prints: "Access code ... not found", "Access code
\* expired", "Error verifying access code", or nothing.
MsgNotFound == "not found"

MsgExpired == "expired"

MsgError == "error"

MsgNone == "none"

\* Mutant: a code counts as expired already at its expiry second.
Expired_AtBoundary(t, rec) == t >= rec.expires_at

\* The expiry test of verify_access_code.
Expired(t, rec) == t > rec.expires_at

\* Mutant: the redeemed code is not deleted before the save.
VerifyOutcome_NoDelete(codes, code, t) ==
    IF code \notin DOMAIN codes
    THEN [ret |-> None, saves |-> FALSE, codes |-> codes, found |-> NoRecord,
          msg |-> MsgNotFound]
    ELSE IF Expired(t, codes[code])
         THEN [ret |-> None, saves |-> TRUE, codes |-> Del(codes, code),
               found |-> codes[code], msg |-> MsgExpired]
         ELSE [ret |-> codes[code].name, saves |-> TRUE, codes |-> codes,
               found |-> codes[code], msg |-> MsgNone]

\* Mutant: an expired code is reported but left in the store.
VerifyOutcome_KeepExpired(codes, code, t) ==
    IF code \notin DOMAIN codes
    THEN [ret |-> None, saves |-> FALSE, codes |-> codes, found |-> NoRecord,
          msg |-> MsgNotFound]
    ELSE IF Expired(t, codes[code])
         THEN [ret |-> None, saves |-> FALSE, codes |-> codes, found |-> codes[code],
               msg |-> MsgExpired]
         ELSE [ret |-> codes[code].name, saves |-> TRUE, codes |-> Del(codes, code),
               found |-> codes[code], msg |-> MsgNone]

\* Mutant: the store is saved also when the code was not found.
VerifyOutcome_SaveAbsent(codes, code, t) ==
    IF code \notin DOMAIN codes
    THEN [ret |-> None, saves |-> TRUE, codes |-> codes, found |-> NoRecord,
          msg |-> MsgNotFound]
    ELSE IF Expired(t, codes[code])
         THEN [ret |-> None, saves |-> TRUE, codes |-> Del(codes, code),
               found |-> codes[code], msg |-> MsgExpired]
         ELSE [ret |-> codes[code].name, saves |-> TRUE, codes |-> Del(codes, code),
               found |-> codes[code], msg |-> MsgNone]

\* Mutant: an expired code is reported with the message of a missing one.
VerifyOutcome_SameMessage(codes, code, t) ==
    IF code \notin DOMAIN codes
    THEN [ret |-> None, saves |-> FALSE, codes |-> codes, found |-> NoRecord,
          msg |-> MsgNotFound]
    ELSE IF Expired(t, codes[code])
         THEN [ret |-> None, saves |-> TRUE, codes |-> Del(codes, code),
               found |-> codes[code], msg |-> MsgNotFound]
         ELSE [ret |-> codes[code].name, saves |-> TRUE, codes |-> Del(codes, code),
               found |-> codes[code], msg |-> MsgNone]

\* What verify_access_code does with the loaded dict at clock reading t:
\* the value it returns, whether it saves, and the dict it saves.
VerifyOutcome(codes, code, t) ==
    IF code \notin DOMAIN codes
    THEN [ret |-> None, saves |-> FALSE, codes |-> codes, found |-> NoRecord,
          msg |-> MsgNotFound]
    ELSE IF Expired(t, codes[code])
         THEN [ret |-> None, saves |-> TRUE, codes |-> Del(codes, code),
               found |-> codes[code], msg |-> MsgExpired]
         ELSE [ret |-> codes[code].name, saves |-> TRUE, codes |-> Del(codes, code),
               found |-> codes[code], msg |-> MsgNone]

\* ------------------------------------------------------------- the clock

\* The clock may advance by one second here.
CanTick == now % LongTick < MaxSec

\* The clock may advance by a long step here.
CanLongTick == now \div LongTick < MaxDays

\* ---------------------------------------------------------------- actions

\* The code the last call issued, None when it was no successful generate.
JustIssued == IF last.op = "generate" /\ ~last.raised THEN last.ret ELSE None

Init ==
    /\ file = NoFile
    /\ now = 0
    /\ last = [op |-> "none", arg |-> None, ret |-> None, raised |-> FALSE,
               t |-> 0, found |-> NoRecord, prev |-> None]
    /\ redeemed = {}
    /\ left = {}
    /\ pc = [p \in Procs |-> "idle"]
    /\ op = [p \in Procs |-> "none"]
    /\ arg = [p \in Procs |-> None]
    /\ local = [p \in Procs |-> EmptyCodes]
    /\ ret = [p \in Procs |-> None]
    /\ stale = [p \in Procs |-> FALSE]
    /\ cli = NoCommand
    /\ draw = <<>>
    /\ ini = NoIni
    /\ validated = NoneValidated

\* generate_access_code(name) drawing `code`, the clock advancing by d seconds
\* between its two readings.
GenerateCall(name, code, d) ==
    /\ d = 0 \/ CanTick
    /\ IF LoadRaises(file)
       THEN /\ last' = [op |-> "generate", arg |-> name, ret |-> None, raised |-> TRUE,
                        t |-> now, found |-> NoRecord, prev |-> JustIssued]
            /\ UNCHANGED <<file, now, redeemed, left>>
            /\ UNCHANGED procVars
       ELSE /\ file' = save_access_codes(
                           GenerateCodes(load_access_codes(file), name, code, now, now + d))
            /\ now' = now + d
            /\ last' = [op |-> "generate", arg |-> name, ret |-> code, raised |-> FALSE,
                        t |-> now, found |-> NoRecord, prev |-> JustIssued]
            /\ redeemed' = redeemed \ {code}
            /\ UNCHANGED <<left, procVars>>

\* A call of generate_access_code on its own.
Generate(name, code, d) == GenerateCall(name, code, d) /\ UNCHANGED cliVars

\* verify_access_code(code)
VerifyCall(code) ==
    IF LoadRaises(file)
    THEN /\ last' = [op |-> "verify", arg |-> code, ret |-> None, raised |-> FALSE,
                     t |-> now, found |-> NoRecord, prev |-> JustIssued,
                     msg |-> MsgError]
         /\ UNCHANGED <<file, now, redeemed, left, procVars>>
    ELSE LET out == VerifyOutcome(load_access_codes(file), code, now)
         IN  /\ file' = IF out.saves THEN save_access_codes(out.codes) ELSE file
             /\ last' = [op |-> "verify", arg |-> code, ret |-> out.ret, raised |-> FALSE,
                         t |-> now, found |-> out.found, prev |-> JustIssued,
                         msg |-> out.msg]
             /\ redeemed' = IF out.ret # None THEN redeemed \cup {code} ELSE redeemed
             /\ left' = IF out.saves THEN left \cup {code} ELSE left
             /\ UNCHANGED <<now, procVars>>

\* A call of verify_access_code on its own.
Verify(code) == VerifyCall(code) /\ UNCHANGED cliVars

\* The clock advances by one second.
Tick ==
    /\ CanTick
    /\ now' = now + 1
    /\ UNCHANGED <<file, last, redeemed, left, procVars, cliVars>>

\* The clock advances by a long step.
TickLong ==
    /\ CanLongTick
    /\ now' = now + LongTick
    /\ UNCHANGED <<file, last, redeemed, left, procVars, cliVars>>

GenerateStep == \E name \in Names, code \in Codes, d \in {0, 1} : Generate(name, code, d)

VerifyStep == \E code \in Codes : Verify(code)

Next ==
    \/ GenerateStep
    \/ VerifyStep
    \/ Tick
    \/ TickLong

Spec == Init /\ [][Next]_vars

\* ------------------------------------------------- concurrent invocations

\* The stores earlier invocations can have left behind at time 0.
InitialFiles ==
    {NoFile} \cup
    {save_access_codes(d) :
        d \in UNION {[S -> {NewRecord(n, 0, 0) : n \in Names}] : S \in SUBSET Codes}}

InitRace ==
    /\ file \in InitialFiles
    /\ now = 0
    /\ last = [op |-> "none", arg |-> None, ret |-> None, raised |-> FALSE,
               t |-> 0, found |-> NoRecord, prev |-> None]
    /\ redeemed = {}
    /\ left = {}
    /\ pc = [p \in Procs |-> "idle"]
    /\ op = [p \in Procs |-> "none"]
    /\ arg = [p \in Procs |-> None]
    /\ local = [p \in Procs |-> EmptyCodes]
    /\ ret = [p \in Procs |-> None]
    /\ stale = [p \in Procs |-> FALSE]
    /\ cli = NoCommand
    /\ draw = <<>>
    /\ ini = NoIni
    /\ validated = NoneValidated

\* Process p is the next invocation to start: processes are numbered in the
\* order they start.
CanStart(p) == pc[p] = "idle" /\ \A q \in Procs : q < p => pc[q] # "idle"

\* Process p starts generate_access_code(name): it loads the file, draws `code`
\* and stores the record in its local dict.
GenLoad(p, name, code) ==
    /\ CanStart(p)
    /\ op' = [op EXCEPT ![p] = "generate"]
    /\ arg' = [arg EXCEPT ![p] = name]
    /\ stale' = [stale EXCEPT ![p] = FALSE]
    /\ IF LoadRaises(file)
       THEN /\ pc' = [pc EXCEPT ![p] = "done"]
            /\ ret' = [ret EXCEPT ![p] = Raised]
            /\ UNCHANGED local
       ELSE /\ pc' = [pc EXCEPT ![p] = "open"]
            /\ ret' = [ret EXCEPT ![p] = code]
            /\ local' = [local EXCEPT ![p] =
                            GenerateCodes(load_access_codes(file), name, code, now, now)]
    /\ UNCHANGED <<file, now, last, redeemed, left, cliVars>>

\* Process p starts verify_access_code(code): it loads the file, looks the code
\* up and deletes it from its local dict.
VerLoad(p, code) ==
    /\ CanStart(p)
    /\ op' = [op EXCEPT ![p] = "verify"]
    /\ arg' = [arg EXCEPT ![p] = code]
    /\ stale' = [stale EXCEPT ![p] = FALSE]
    /\ IF LoadRaises(file)
       THEN /\ pc' = [pc EXCEPT ![p] = "done"]
            /\ ret' = [ret EXCEPT ![p] = None]
            /\ UNCHANGED local
       ELSE LET out == VerifyOutcome(load_access_codes(file), code, now)
            IN  /\ pc' = [pc EXCEPT ![p] = IF out.saves THEN "open" ELSE "done"]
                /\ ret' = [ret EXCEPT ![p] = out.ret]
                /\ local' = [local EXCEPT ![p] = out.codes]
    /\ UNCHANGED <<file, now, last, redeemed, left, cliVars>>

\* Every other process that has loaded and not yet written now holds a stale dict.
MarkStale(p) ==
    [q \in Procs |-> IF q # p /\ pc[q] \in {"open", "dump"} THEN TRUE ELSE stale[q]]

\* save_access_codes, first half: open(CODES_FILE, "w") truncates the file.
Open(p) ==
    /\ pc[p] = "open"
    /\ file' = Truncated
    /\ pc' = [pc EXCEPT ![p] = "dump"]
    /\ stale' = MarkStale(p)
    /\ UNCHANGED <<now, last, redeemed, left, op, arg, local, ret, cliVars>>

\* The files a write of `text` at offset 0 can leave when the file is f: the
\* text alone when nothing longer is in the file, else the text followed by
\* the tail of what another process wrote, which does not parse.
WriteOver(f, text) ==
    IF ~f.valid \/ f.text = text \/ Cardinality(f.text) < Cardinality(text)
    THEN {[exists |-> TRUE, valid |-> TRUE, text |-> text]}
    ELSE IF Cardinality(f.text) > Cardinality(text)
         THEN {Truncated}
         ELSE {[exists |-> TRUE, valid |-> TRUE, text |-> text], Truncated}

\* save_access_codes, second half: json.dump writes the dict and the file is closed.
Dump(p) ==
    /\ pc[p] = "dump"
    /\ file' \in WriteOver(file, json_dump(local[p]))
    /\ pc' = [pc EXCEPT ![p] = "done"]
    /\ stale' = MarkStale(p)
    /\ UNCHANGED <<now, last, redeemed, left, op, arg, local, ret, cliVars>>

NextRace ==
    \/ \E p \in Procs, name \in Names, code \in Codes : GenLoad(p, name, code)
    \/ \E p \in Procs, code \in Codes : VerLoad(p, code)
    \/ \E p \in Procs : Open(p)
    \/ \E p \in Procs : Dump(p)

SpecRace == InitRace /\ [][NextRace]_vars

\* ------------------------------------------------- sequential properties

\* The record the file holds for code c.
Rec(c) == load_access_codes(file)[c]

\* C1: single use. When verify_access_code(c) has returned an owner name and c
\* has not been issued again since, a further verify_access_code(c) returns None.
C1_SingleUse ==
    [][\A c \in Codes : (c \in redeemed /\ Verify(c)) => last'.ret = None]_vars

\* C1 witness: a second verify of a redeemed code has run.
C1_Witness == last.op = "verify" /\ last.arg \in redeemed /\ last.ret = None

\* C3: round trip. verify_access_code of the code generate_access_code(n) has just
\* returned, called no later than its expires_at and with no call in between,
\* returns n.
C3_RoundTrip ==
    [][\A c \in Codes :
          (/\ last.op = "generate"
           /\ ~last.raised
           /\ last.ret = c
           /\ Verify(c)
           /\ now <= Rec(c).expires_at) => last'.ret = last.arg]_vars

\* C3 witness: a verify directly after the generate that issued its code
\* returned a name.
C3_Witness == last.op = "verify" /\ last.prev = last.arg /\ last.ret \in Names

\* C4 (as claimed): generate_access_code never returns a code that was a key of
\* the store when it was called.
C4_NeverOverwrites == [][GenerateStep => last'.ret \notin Keys(file)]_vars

\* C5: expiry on lookup. verify_access_code(c) with c present and the clock past
\* its expires_at returns None and leaves c out of the store.
C5_ExpiryOnLookup ==
    [][\A c \in Codes :
          (Verify(c) /\ c \in Keys(file) /\ now > Rec(c).expires_at)
              => (last'.ret = None /\ c \notin Keys(file'))]_vars

\* C5 witness: a verify has found its code expired.
C5_Witness ==
    /\ last.op = "verify"
    /\ last.found # NoRecord
    /\ last.t > last.found.expires_at

\* C6: expiry boundary. For a present code with expires_at = created_at + 86400,
\* verify_access_code returns the owner name at every time up to and including
\* expires_at and None at every later time.
C6_ExpiryBoundary ==
    [][\A c \in Codes :
          (/\ Verify(c)
           /\ c \in Keys(file)
           /\ Rec(c).expires_at = Rec(c).created_at + 86400)
              => last'.ret = IF now <= Rec(c).expires_at THEN Rec(c).name ELSE None]_vars

\* C6 witness: a verify at exactly the expiry second returned the owner name.
C6_Witness ==
    /\ last.op = "verify"
    /\ last.found # NoRecord
    /\ last.found.expires_at = last.found.created_at + 86400
    /\ last.t = last.found.expires_at
    /\ last.ret = last.found.name

\* One second before the expiry second the name is returned.
C6_WitnessBefore ==
    /\ last.op = "verify"
    /\ last.found # NoRecord
    /\ last.found.expires_at = last.found.created_at + 86400
    /\ last.t = last.found.expires_at - 1
    /\ last.ret = last.found.name

\* One second after the expiry second None is returned.
C6_WitnessAfter ==
    /\ last.op = "verify"
    /\ last.found # NoRecord
    /\ last.found.expires_at = last.found.created_at + 86400
    /\ last.t = last.found.expires_at + 1
    /\ last.ret = None

\* C7 (as claimed): a code that a verify call removed from the store is never
\* in the store again.
C7_NeverBack == \A c \in left : c \notin Keys(file)

\* C7 (amended): a key that is absent from the store becomes present only by a
\* generate_access_code call that returns that very code; verify_access_code
\* never adds a key.
C7_BackOnlyByReissue ==
    [][\A c \in Keys(file') \ Keys(file) :
          GenerateStep /\ last'.op = "generate" /\ last'.ret = c]_vars

\* C7 witness: a code that had left the store has been issued again.
C7_Witness ==
    /\ last.op = "generate"
    /\ last.ret \in left
    /\ last.ret \in Keys(file)

\* C9: absent code. verify_access_code(c) for a c that is no key of the store,
\* also when the codes file does not exist, returns None, raises nothing and
\* leaves the file as it was.
C9_AbsentCode ==
    [][\A c \in Codes :
          (Verify(c) /\ c \notin Keys(file))
              => (last'.ret = None /\ ~last'.raised /\ file' = file)]_vars

\* C9 witness: a verify has run against a codes file that does not exist.
C9_Witness ==
    /\ last.op = "verify"
    /\ last.found = NoRecord
    /\ last.ret = None
    /\ file = NoFile

\* C10 (as claimed): every record of the store has expires_at = created_at + 86400.
C10_FixedWindow ==
    \A c \in Keys(file) : Rec(c).expires_at = Rec(c).created_at + Window

\* ------------------------------------------------- concurrent properties

\* Process p has returned from its call.
Returned(p) == pc[p] = "done"

\* Some invocation of this run issued code c.
IssuedInRun(c) == \E r \in Procs : op[r] = "generate" /\ ret[r] = c

\* C2 (as claimed): of two verify_access_code(c) processes redeeming the same
\* issued code, at most one returns the owner name.
C2_AtMostOneRedemption ==
    \A p, q \in Procs :
        (/\ p # q
         /\ Returned(p) /\ Returned(q)
         /\ op[p] = "verify" /\ op[q] = "verify"
         /\ arg[p] = arg[q]
         /\ ~IssuedInRun(arg[p])) => ~(ret[p] # None /\ ret[q] # None)

\* A code generate_access_code returned to process p is missing from the
\* parseable codes file although no invocation redeemed it.
LostCode(p) ==
    /\ Returned(p)
    /\ op[p] = "generate"
    /\ ret[p] \in Codes
    /\ file.valid
    /\ ret[p] \notin Keys(file)
    /\ \A q \in Procs : ~(op[q] = "verify" /\ arg[q] = ret[p])

\* C8: lost update. A code that was returned to its caller and that nobody
\* redeemed is absent from the store only after another process saved a dict
\* it had loaded before the file was last written: that save discards the change.
C8_LostOnlyByStaleSave ==
    \A p \in Procs :
        LostCode(p) => \E q \in Procs : q # p /\ Returned(q) /\ stale[q]

\* C8 witness: every process has finished and a returned, unredeemed code is
\* absent from the store.
C8_Witness ==
    /\ \A q \in Procs : Returned(q)
    /\ \E p \in Procs : LostCode(p)

\* ------------------------------------------- frame and concurrency, continued

\* C13: redemption only deletes. verify_access_code(c) adds no key, removes no
\* key other than c and changes no record that remains.
C13_VerifyOnlyDeletes ==
    [][\A c \in Codes :
          Verify(c) =>
              /\ Keys(file') \subseteq Keys(file)
              /\ Keys(file) \ Keys(file') \subseteq {c}
              /\ \A k \in Keys(file') :
                    load_access_codes(file')[k] = load_access_codes(file)[k]]_vars

\* C13 witness: a verify has removed its code and another code remains stored.
C13_Witness ==
    /\ last.op = "verify"
    /\ last.found # NoRecord
    /\ last.arg \notin Keys(file)
    /\ Keys(file) # {}

\* C14 (as claimed): an expired record stays in the store, unchanged, through
\* every step that is not a verify_access_code call for its own code.
C14_LazyExpiry ==
    [][\A c \in Keys(file) :
          (now > Rec(c).expires_at /\ ~Verify(c))
              => (c \in Keys(file') /\ load_access_codes(file')[c] = Rec(c))]_vars

\* C20 (as claimed): a code that one process redeemed is not in the store once
\* a generate_access_code process that issued another code has saved.
C20_NotWrittenBack ==
    \A p, q \in Procs :
        (/\ Returned(p) /\ op[p] = "verify" /\ ret[p] \in Names
         /\ Returned(q) /\ op[q] = "generate" /\ ret[q] \in Codes
         /\ ret[q] # arg[p]
         /\ ~IssuedInRun(arg[p])
         /\ file.valid) => arg[p] \notin Keys(file)

\* ------------------------------------------------------ storage failures

\* Where the file system fails a call: nowhere, in the read of load_access_codes,
\* in open(CODES_FILE, "w"), or in the write of json.dump / the close of the file.
Faults == {"none", "load", "open", "dump"}

\* The codes file after save_access_codes(codes) under a failure: open fails
\* before the file is touched; a failed write leaves the file truncated by open.
FileAfterSave(f, codes, fault) ==
    CASE fault = "open" -> f
      [] fault = "dump" -> Truncated
      [] OTHER -> save_access_codes(codes)

\* Mutant: generate_access_code catches the exception and returns the code anyway.
GenerateReturn_Swallow(code, failed) == [ret |-> code, raised |-> FALSE]

\* What generate_access_code hands to its caller: the exception of a failed
\* load or save propagates, else the code is returned.
GenerateReturn(code, failed) ==
    IF failed THEN [ret |-> None, raised |-> TRUE] ELSE [ret |-> code, raised |-> FALSE]

\* Mutant: verify_access_code returns the name although the load or save failed.
VerifyReturn_NameAnyway(name, failed) == name

\* What verify_access_code hands to its caller: its except clause turns every
\* exception into None.
VerifyReturn(name, failed) == IF failed THEN None ELSE name

\* generate_access_code(name) drawing `code`, with the file system failing at `fault`.
GenerateF(name, code, fault) ==
    /\ fault = "load" => file.exists
    /\ IF fault = "load" \/ LoadRaises(file)
       THEN /\ last' = [op |-> "generate", arg |-> name, t |-> now, found |-> NoRecord,
                        prev |-> JustIssued, fault |-> "load",
                        ret |-> GenerateReturn(code, TRUE).ret,
                        raised |-> GenerateReturn(code, TRUE).raised]
            /\ UNCHANGED file
       ELSE /\ file' = FileAfterSave(file,
                           GenerateCodes(load_access_codes(file), name, code, now, now),
                           fault)
            /\ last' = [op |-> "generate", arg |-> name, t |-> now, found |-> NoRecord,
                        prev |-> JustIssued, fault |-> fault,
                        ret |-> GenerateReturn(code, fault # "none").ret,
                        raised |-> GenerateReturn(code, fault # "none").raised]
    /\ UNCHANGED <<now, redeemed, left, procVars, cliVars>>

\* verify_access_code(code), with the file system failing at `fault`.
VerifyF(code, fault) ==
    /\ fault = "load" => file.exists
    /\ IF fault = "load" \/ LoadRaises(file)
       THEN /\ last' = [op |-> "verify", arg |-> code, t |-> now, found |-> NoRecord,
                        prev |-> JustIssued, fault |-> "load", msg |-> MsgError,
                        ret |-> VerifyReturn(None, TRUE), raised |-> FALSE]
            /\ UNCHANGED file
       ELSE LET out == VerifyOutcome(load_access_codes(file), code, now)
            IN  /\ out.saves \/ fault = "none"
                /\ file' = IF out.saves THEN FileAfterSave(file, out.codes, fault) ELSE file
                /\ last' = [op |-> "verify", arg |-> code, t |-> now, found |-> out.found,
                            prev |-> JustIssued, fault |-> fault,
                            msg |-> IF fault # "none" THEN MsgError ELSE out.msg,
                            ret |-> VerifyReturn(out.ret, fault # "none"),
                            raised |-> FALSE]
    /\ UNCHANGED <<now, redeemed, left, procVars, cliVars>>

NextFault ==
    \/ \E name \in Names, code \in Codes, fault \in Faults : GenerateF(name, code, fault)
    \/ \E code \in Codes, fault \in Faults : VerifyF(code, fault)
    \/ TickLong

SpecFault == Init /\ [][NextFault]_vars

\* C11 (as claimed): the codes file always holds a complete mapping, never an
\* empty or partial text, also after a save that failed.
C11_AtomicSave == file.exists => file.valid

\* C12: generate_access_code returns a code only when the record for that code
\* is in the codes file; when the load or the save fails the exception reaches
\* the caller and no code is returned.
C12_NoUnpersistedCode ==
    last.op = "generate" =>
        /\ last.fault # "none" => (last.raised /\ last.ret = None)
        /\ ~last.raised =>
              /\ file.valid
              /\ last.ret \in Keys(file)
              /\ Rec(last.ret).name = last.arg

\* C12 witness: a save inside generate_access_code has failed.
C12_Witness ==
    /\ last.op = "generate"
    /\ last.fault \in {"open", "dump"}
    /\ last.raised

\* C19: a failed redemption tells its cause. verify_access_code prints the
\* not-found message exactly when the code is no key of the store and the
\* expired message exactly when the code is present and the clock is past its
\* expires_at; in both cases it returns None.
C19_CausesToldApart ==
    [][\A c \in Codes :
          Verify(c) =>
              /\ last'.msg = "not found" <=> c \notin Keys(file)
              /\ last'.msg = "expired" <=> (c \in Keys(file) /\ now > Rec(c).expires_at)
              /\ last'.msg \in {"not found", "expired"} => last'.ret = None]_vars

\* C19 witness: a verify has reported an expired code.
C19_Witness == last.op = "verify" /\ last.msg = "expired" /\ last.ret = None

\* ------------------------------------------------- command-line commands

\* The validity the generate-code command prints: "Valid for: 30 minutes", in seconds.
PrintedWindow == 1800

\* Owner names the generate-code command accepts: any string, the empty one included.
CliNames == Names \cup {""}

\* What cmd_init meets outside the store: the config file loads, the git
\* executable is found, the repository directory exists after the clone.
Envs == [config : BOOLEAN, git : BOOLEAN, dir : BOOLEAN]

\* Python's `not name`.
Falsy(name) == name = None \/ name = ""

\* Mutant: the identity is set up before the repository is cloned.
CmdInitOutcome_IdentityFirst(name, env) ==
    IF Falsy(name)
    THEN [log |-> <<"print_invalid">>, raised |-> FALSE, identity |-> None]
    ELSE IF ~env.config
    THEN [log |-> <<"print_verified">>, raised |-> TRUE, identity |-> None]
    ELSE IF ~env.git
    THEN [log |-> <<"print_verified", "setup_git_identity", "print_error">>,
          raised |-> FALSE, identity |-> None]
    ELSE IF ~env.dir
    THEN [log |-> <<"print_verified", "setup_git_identity", "print_identity",
                    "clone_repository", "print_cloned", "print_error">>,
          raised |-> FALSE, identity |-> name]
    ELSE [log |-> <<"print_verified", "setup_git_identity", "print_identity",
                    "clone_repository", "print_cloned", "chdir", "print_success">>,
          raised |-> FALSE, identity |-> name]

\* Mutant: the result of verify_access_code is not tested.
CmdInitOutcome_NoCheck(name, env) ==
    IF ~env.config
    THEN [log |-> <<"print_verified">>, raised |-> TRUE, identity |-> None]
    ELSE IF ~env.git
    THEN [log |-> <<"print_verified", "clone_repository", "print_error">>,
          raised |-> FALSE, identity |-> None]
    ELSE IF ~env.dir
    THEN [log |-> <<"print_verified", "clone_repository", "print_cloned", "print_error">>,
          raised |-> FALSE, identity |-> None]
    ELSE [log |-> <<"print_verified", "clone_repository", "print_cloned", "chdir",
                    "setup_git_identity", "print_identity", "print_success">>,
          raised |-> FALSE, identity |-> name]

\* What cmd_init does once verify_access_code has returned `name`: the calls and
\* prints it makes in order, whether an exception leaves it, and the name the
\* git identity is set from.
CmdInitOutcome(name, env) ==
    IF Falsy(name)
    THEN [log |-> <<"print_invalid">>, raised |-> FALSE, identity |-> None]
    ELSE IF ~env.config
    THEN [log |-> <<"print_verified">>, raised |-> TRUE, identity |-> None]
    ELSE IF ~env.git
    THEN [log |-> <<"print_verified", "clone_repository", "print_error">>,
          raised |-> FALSE, identity |-> None]
    ELSE IF ~env.dir
    THEN [log |-> <<"print_verified", "clone_repository", "print_cloned", "print_error">>,
          raised |-> FALSE, identity |-> None]
    ELSE [log |-> <<"print_verified", "clone_repository", "print_cloned", "chdir",
                    "setup_git_identity", "print_identity", "print_success">>,
          raised |-> FALSE, identity |-> name]

\* xwgit generate-code <name>
CmdGenerateCode(name, code, config) ==
    IF ~config
    THEN /\ cli' = [cmd |-> "generate-code", arg |-> name, raised |-> TRUE,
                    code |-> None, window |-> 0, log |-> <<>>]
         /\ UNCHANGED <<file, now, last, redeemed, left, procVars, draw, bootVars>>
    ELSE /\ GenerateCall(name, code, 0)
         /\ cli' = [cmd |-> "generate-code", arg |-> name, raised |-> last'.raised,
                    code |-> last'.ret, window |-> PrintedWindow,
                    log |-> IF last'.raised THEN <<>>
                            ELSE <<"print_code", "print_valid_for">>]
         /\ UNCHANGED <<draw, bootVars>>

\* xwgit init --code <code>
CmdInit(code, env) ==
    /\ VerifyCall(code)
    /\ cli' = [cmd |-> "init", arg |-> code,
               log |-> CmdInitOutcome(last'.ret, env).log,
               raised |-> CmdInitOutcome(last'.ret, env).raised,
               identity |-> CmdInitOutcome(last'.ret, env).identity]
    /\ UNCHANGED <<draw, bootVars>>

NextCli ==
    \/ \E name \in CliNames, code \in Codes, config \in BOOLEAN :
          CmdGenerateCode(name, code, config)
    \/ \E code \in Codes, env \in Envs : CmdInit(code, env)
    \/ TickLong

SpecCli == Init /\ [][NextCli]_vars

\* Event e is in the log.
InLog(log, e) == \E i \in 1 .. Len(log) : log[i] = e

\* Event a is in the log before event b.
Before(log, a, b) == \E i, j \in 1 .. Len(log) : i < j /\ log[i] = a /\ log[j] = b

\* C16 (as claimed): when cmd_init clones the repository, it has set the git
\* identity before.
C16_IdentityBeforeClone ==
    (cli.cmd = "init" /\ InLog(cli.log, "clone_repository"))
        => Before(cli.log, "setup_git_identity", "clone_repository")

\* C16 (amended): cmd_init sets the git identity only after a successful
\* redemption, from the owner name of the redeemed record, and only after it
\* has cloned the repository and changed into it.
C16_IdentityAfterClone ==
    (cli.cmd = "init" /\ InLog(cli.log, "setup_git_identity")) =>
        /\ last.ret # None
        /\ last.ret = last.found.name
        /\ cli.identity = last.found.name
        /\ Before(cli.log, "clone_repository", "chdir")
        /\ Before(cli.log, "chdir", "setup_git_identity")

\* C16 witness: cmd_init has set the git identity.
C16_Witness == cli.cmd = "init" /\ InLog(cli.log, "setup_git_identity")

\* The code given to the last verify was absent or expired.
AbsentOrExpired ==
    /\ last.op = "verify"
    /\ last.found = NoRecord \/ last.t > last.found.expires_at

\* C17: when the code given to init is absent or expired, cmd_init prints the
\* error and returns without raising, and neither clone_repository nor
\* setup_git_identity is called.
C17_FailedInit ==
    (cli.cmd = "init" /\ AbsentOrExpired) =>
        /\ InLog(cli.log, "print_invalid")
        /\ ~cli.raised
        /\ ~InLog(cli.log, "clone_repository")
        /\ ~InLog(cli.log, "setup_git_identity")

\* C17 witness: cmd_init has been given an expired code.
C17_Witness ==
    /\ cli.cmd = "init"
    /\ last.op = "verify"
    /\ last.found # NoRecord
    /\ last.t > last.found.expires_at

\* C18 (as claimed): the validity window generate-code prints is the one of the
\* record it has just stored.
C18_PrintedWindow ==
    (cli.cmd = "generate-code" /\ ~cli.raised) =>
        cli.window = Rec(cli.code).expires_at - Rec(cli.code).created_at

\* ------------------------------------------------------ drawing the code

\* Number of characters generate_access_code draws.
CodeLen == 8

\* string.ascii_uppercase
ascii_uppercase ==
    {"A", "B", "C", "D", "E", "F", "G", "H", "I", "J", "K", "L", "M",
     "N", "O", "P", "Q", "R", "S", "T", "U", "V", "W", "X", "Y", "Z"}

\* string.digits
digits == {"0", "1", "2", "3", "4", "5", "6", "7", "8", "9"}

\* Mutant: the alphabet holds a lowercase letter.
alphabet_WithLowercase == ascii_uppercase \cup digits \cup {"a"}

\* alphabet = string.ascii_uppercase + string.digits
alphabet == ascii_uppercase \cup digits

\* The outcomes of secrets.choice that are followed: a letter, a digit, and a
\* character outside A-Z0-9 that is drawn only if the alphabet holds it.
DrawSample == {"A", "9", "a"}

\* One round of the generator expression: secrets.choice(alphabet).  The code is
\* kept as the tuple of its characters.
DrawChar(ch) ==
    /\ last.op = "none"
    /\ Len(draw) < CodeLen
    /\ ch \in alphabet
    /\ draw' = Append(draw, ch)
    /\ UNCHANGED <<file, now, last, redeemed, left, procVars, cli, bootVars>>

\* The rest of generate_access_code(name) once the code is drawn.
IssueDrawn(name) ==
    /\ Len(draw) = CodeLen
    /\ GenerateCall(name, draw, 0)
    /\ draw' = <<>>
    /\ UNCHANGED <<cli, bootVars>>

NextDraw ==
    \/ \E ch \in DrawSample : DrawChar(ch)
    \/ \E name \in CliNames : IssueDrawn(name)

SpecDraw == Init /\ [][NextDraw]_vars

\* A code of exactly 8 characters, each one of A-Z or 0-9.
EightOfAZ09(c) ==
    /\ Len(c) = 8
    /\ \A i \in 1 .. Len(c) : c[i] \in ascii_uppercase \cup digits

\* C15: for every name, generate_access_code returns a code of exactly 8
\* characters, each from the 36-symbol alphabet A-Z and 0-9, and every key it
\* adds to the store has that form.
C15_CodeForm ==
    /\ Cardinality(ascii_uppercase \cup digits) = 36
    /\ last.op = "generate" =>
          /\ EightOfAZ09(last.ret)
          /\ \A k \in Keys(file) : EightOfAZ09(k)

\* C15 witness: a code that mixes letters and digits has been issued and stored.
C15_Witness ==
    /\ last.op = "generate"
    /\ last.ret \in Keys(file)
    /\ \E i, j \in 1 .. Len(last.ret) : last.ret[i] = "A" /\ last.ret[j] = "9"

\* C21: verify_access_code returns an owner name only if the save that removes
\* the code from the store completed; when loading or saving the codes file
\* fails it returns None instead of the name.
C21_NameOnlyAfterSave ==
    last.op = "verify" =>
        /\ last.fault # "none" => last.ret = None
        /\ last.ret # None =>
              /\ last.fault = "none"
              /\ file.valid
              /\ last.arg \notin Keys(file)
              /\ last.ret = last.found.name

\* C21 witness: the save of a redemption of a live code has failed.
C21_Witness ==
    /\ last.op = "verify"
    /\ last.fault \in {"open", "dump"}
    /\ last.found # NoRecord
    /\ ~Expired(last.t, last.found)
    /\ last.ret = None

\* C22 (as claimed): cmd_init prints "Invalid or expired access code" only when
\* the code was absent or expired; every code that verify_access_code redeemed
\* goes on to repository setup, whatever its owner name.
C22_InvalidOnlyWhenAbsentOrExpired ==
    (cli.cmd = "init" /\ InLog(cli.log, "print_invalid")) => AbsentOrExpired

\* C23: cmd_init consumes the code before it touches the repository. After
\* cmd_init ran, the code it was given is no key of the store, whether the
\* clone, chdir and identity setup succeeded or failed; a further init with the
\* same code right after a failed one is refused.
C23_ConsumedBeforeSetup ==
    [][\A c \in Codes, env \in Envs :
          CmdInit(c, env) =>
              /\ c \notin Keys(file')
              /\ (cli.cmd = "init" /\ cli.arg = c /\ ~InLog(cli.log, "print_success"))
                    => cli'.log = <<"print_invalid">>]_vars

\* C23 witness: cmd_init was given a live code and its repository setup failed.
C23_Witness ==
    /\ cli.cmd = "init"
    /\ last.op = "verify"
    /\ last.ret \in Names
    /\ InLog(cli.log, "print_error")
    /\ cli.arg \notin Keys(file)

\* ------------------------------------------------ xwgit.py: fetch_command

\* The steps of fetch_command after the temporary directory is made, in the
\* order of the code.
FetchSteps_FetchBeforeWrite ==
    <<"git_init", "remote_add", "sparse_config", "fetch", "write_paths", "checkout", "copy">>

FetchSteps ==
    <<"git_init", "remote_add", "sparse_config", "write_paths", "fetch", "checkout", "copy">>

\* The steps that are run_git_command calls.
GitSteps == {"git_init", "remote_add", "sparse_config", "fetch", "checkout"}

\* len(checkout_paths): three patterns for a tool, else the one path given.
PathCount(type) == IF type = "tool" THEN 3 ELSE 1

\* What a run of fetch_command meets: the token check passes, the type asked
\* for, the git steps that fail when run, the write of the sparse-checkout file
\* succeeds, how many of the checkout paths exist after the checkout, the
\* copy succeeds.
FetchEnvs ==
    [token : BOOLEAN, type : {"tool", "file"}, fails : SUBSET GitSteps,
     write : BOOLEAN, found : 0 .. 3, copy : BOOLEAN]

\* Mutant: a failed git step returns without removing the temporary directory.
FetchFailed_KeepTemp(log) == [log |-> Append(log, "print_failed"), ret |-> FALSE, copied |-> 0]

\* `if not status:` after a git step: print, shutil.rmtree(temp_dir), return False.
FetchFailed(log) == [log |-> log \o <<"print_failed", "rmtree">>, ret |-> FALSE, copied |-> 0]

\* `except Exception`: print, remove the temporary directory if it exists, return False.
FetchExcept(log) == [log |-> log \o <<"print_error", "rmtree">>, ret |-> FALSE, copied |-> 0]

\* After the copy loop: shutil.rmtree(temp_dir), then return files_found.
FetchEnd(log, copied) == [log |-> Append(log, "rmtree"), ret |-> copied > 0, copied |-> copied]

\* fetch_command from step i on, `log` being what it has done so far.
RECURSIVE FetchRun(_, _, _)
FetchRun(i, env, log) ==
    LET s == FetchSteps[i]
        done == Append(log, s)
    IN  IF s \in GitSteps
        THEN IF s \in env.fails THEN FetchFailed(done) ELSE FetchRun(i + 1, env, done)
        ELSE IF s = "write_paths"
        THEN IF ~env.write THEN FetchExcept(done) ELSE FetchRun(i + 1, env, done)
        ELSE IF env.found > 0 /\ ~env.copy
             THEN FetchExcept(done)
             ELSE FetchEnd(done, env.found)

\* fetch_command(args): its calls in order, its return value, the paths copied.
FetchOutcome(env) ==
    IF ~env.token
    THEN [log |-> <<"check_token">>, ret |-> FALSE, copied |-> 0]
    ELSE FetchRun(1, env, <<"check_token", "mkdir">>)

\* The temporary directory exists after the calls of the log.
TempDirExists(log) ==
    \E i \in 1 .. Len(log) :
        log[i] = "mkdir" /\ \A j \in i + 1 .. Len(log) : log[j] # "rmtree"

\* xwgit fetch <type> <path>
FetchCommand(env) ==
    /\ env.found <= PathCount(env.type)
    /\ cli' = [cmd |-> "fetch", env |-> env, log |-> FetchOutcome(env).log,
               ret |-> FetchOutcome(env).ret, copied |-> FetchOutcome(env).copied]
    /\ UNCHANGED <<file, now, last, redeemed, left, procVars, draw, bootVars>>

\* s is a prefix of t.
IsPrefix(s, t) == Len(s) <= Len(t) /\ \A i \in 1 .. Len(s) : s[i] = t[i]

\* The steps of fetch_command among the calls of the log, in the order made.
StepsOf(log) ==
    LET IsStep(e) == e \in {"git_init", "remote_add", "sparse_config", "write_paths",
                            "fetch", "checkout", "copy"}
    IN  SelectSeq(log, IsStep)

\* C24: fetch_command runs its steps in the fixed order git init, remote add,
\* sparse-checkout config, write of the sparse-checkout path file, depth-1
\* fetch, checkout, copy; when a git step fails no later step runs and it
\* returns False; it returns True only if at least one requested path was copied.
C24_FetchOrder ==
    cli.cmd = "fetch" =>
        LET steps == StepsOf(cli.log)
        IN  /\ IsPrefix(steps, <<"git_init", "remote_add", "sparse_config", "write_paths",
                                 "fetch", "checkout", "copy">>)
            /\ \A i \in 1 .. Len(steps) :
                  (steps[i] \in {"git_init", "remote_add", "sparse_config", "fetch", "checkout"}
                   /\ steps[i] \in cli.env.fails)
                      => (i = Len(steps) /\ cli.ret = FALSE)
            /\ cli.ret = TRUE => (cli.copied >= 1 /\ Len(steps) = 7)

\* C24 witness: the depth-1 fetch failed after the path file was written.
C24_Witness ==
    /\ cli.cmd = "fetch"
    /\ InLog(cli.log, "write_paths")
    /\ InLog(cli.log, "fetch")
    /\ "fetch" \in cli.env.fails
    /\ cli.ret = FALSE

\* C25: on every return path of fetch_command taken after the temporary
\* directory was created (a failed git step, success, no files found, an
\* exception), the temporary directory has been removed.
C25_TempDirRemoved ==
    (cli.cmd = "fetch" /\ InLog(cli.log, "mkdir") /\ cli.ret \in BOOLEAN)
        => ~TempDirExists(cli.log)

\* C25 witness: fetch_command returned after a git step failed in the
\* temporary directory.
C25_Witness ==
    /\ cli.cmd = "fetch"
    /\ InLog(cli.log, "mkdir")
    /\ InLog(cli.log, "print_failed")
    /\ cli.ret = FALSE

\* ------------------------------- xwgit.py: add_tool_command, contribute_command

\* a-z
ascii_lowercase ==
    {"a", "b", "c", "d", "e", "f", "g", "h", "i", "j", "k", "l", "m",
     "n", "o", "p", "q", "r", "s", "t", "u", "v", "w", "x", "y", "z"}

\* The character class [a-z0-9_-].
NameClass == ascii_lowercase \cup digits \cup {"_", "-"}

\* re.match(r'^[a-z0-9_-]+$', name), the name given as the tuple of its
\* characters: one or more characters of the class up to the end of the
\* string, where `$` also matches just before a newline that ends the string.
ReMatch(name) ==
    LET body == IF Len(name) > 0 /\ name[Len(name)] = "\n"
                THEN SubSeq(name, 1, Len(name) - 1)
                ELSE name
    IN  /\ Len(body) >= 1
        /\ \A i \in 1 .. Len(body) : body[i] \in NameClass

\* Mutant: a category outside the four is accepted.
valid_categories_WithMisc == {"utility", "search", "integration", "analysis", "misc"}

\* valid_categories
valid_categories == {"utility", "search", "integration", "analysis"}

\* Tool names given on the command line.
ToolNames ==
    {<<"a", "b">>, <<"x", "-", "1", "_">>, <<>>, <<"A", "b">>, <<"a", " ", "b">>, <<"a", "\n">>}

\* Categories given on the command line.
Categories == {"utility", "analysis", "misc", ""}

\* The operations of add_tool_command that can fail.
AddToolOps ==
    {"makedirs", "write_impl", "write_doc", "write_test",
     "find_repo_root", "check_token", "git_add", "git_commit", "git_push"}

\* add_tool_command(args), `fails` being the operations that fail when run:
\* the operations it runs in order, its return value, whether the commit and
\* the push succeeded.
AddToolOutcome(args, fails) ==
    LET Out(log, r, c, p) == [log |-> log, ret |-> r, committed |-> c, pushed |-> p]
        files == <<"makedirs", "write_impl", "write_doc", "write_test">>
    IN  IF ~ReMatch(args.name) THEN Out(<<"print_invalid_name">>, FALSE, FALSE, FALSE)
        ELSE IF args.category \notin valid_categories
        THEN Out(<<"print_invalid_category">>, FALSE, FALSE, FALSE)
        ELSE IF "makedirs" \in fails THEN Out(SubSeq(files, 1, 1), FALSE, FALSE, FALSE)
        ELSE IF "write_impl" \in fails THEN Out(SubSeq(files, 1, 2), FALSE, FALSE, FALSE)
        ELSE IF "write_doc" \in fails THEN Out(SubSeq(files, 1, 3), FALSE, FALSE, FALSE)
        ELSE IF "write_test" \in fails THEN Out(files, FALSE, FALSE, FALSE)
        ELSE IF ~args.commit THEN Out(files, TRUE, FALSE, FALSE)
        ELSE IF "find_repo_root" \in fails
        THEN Out(files \o <<"find_repo_root">>, TRUE, FALSE, FALSE)
        ELSE IF "check_token" \in fails
        THEN Out(files \o <<"find_repo_root", "check_token">>, TRUE, FALSE, FALSE)
        ELSE IF "git_add" \in fails
        THEN Out(files \o <<"find_repo_root", "check_token", "git_add">>, TRUE, FALSE, FALSE)
        ELSE IF "git_commit" \in fails
        THEN Out(files \o <<"find_repo_root", "check_token", "git_add", "git_commit">>,
                 TRUE, FALSE, FALSE)
        ELSE IF ~args.push
        THEN Out(files \o <<"find_repo_root", "check_token", "git_add", "git_commit">>,
                 TRUE, TRUE, FALSE)
        ELSE Out(files \o <<"find_repo_root", "check_token", "git_add", "git_commit",
                            "git_push">>,
                 TRUE, TRUE, "git_push" \notin fails)

\* xwgit add-tool <name> --category <category> [--commit] [--push]
AddToolCommand(name, category, commit, push, fails) ==
    LET args == [name |-> name, category |-> category, commit |-> commit, push |-> push]
        out == AddToolOutcome(args, fails)
    IN  /\ cli' = [cmd |-> "add-tool", args |-> args, fails |-> fails, log |-> out.log,
                   ret |-> out.ret, committed |-> out.committed, pushed |-> out.pushed]
        /\ UNCHANGED <<file, now, last, redeemed, left, procVars, draw, bootVars>>

\* contribute_command(args) for a path `category/name`: `parts` is the number
\* of parts the path splits into, `setup` whether the XwDevTools repository is
\* there or could be cloned.  The summary it prints is built from the return
\* value of add_tool_command.
ContributeOutcome(parts, setup, args, fails) ==
    LET out == AddToolOutcome([args EXCEPT !.commit = TRUE], fails)
    IN  IF parts # 2
        THEN [log |-> <<"print_invalid_path">>, ret |-> FALSE, committed |-> FALSE,
              pushed |-> FALSE, summary |-> FALSE, says_committed |-> FALSE,
              says_pushed |-> FALSE]
        ELSE IF ~setup
        THEN [log |-> <<"clone">>, ret |-> FALSE, committed |-> FALSE,
              pushed |-> FALSE, summary |-> FALSE, says_committed |-> FALSE,
              says_pushed |-> FALSE]
        ELSE [log |-> <<"clone">> \o out.log \o <<"print_summary">>, ret |-> out.ret,
              committed |-> out.committed, pushed |-> out.pushed, summary |-> TRUE,
              says_committed |-> out.ret, says_pushed |-> out.ret /\ args.push]

\* xwgit contribute <category>/<name> [--push]
ContributeCommand(parts, setup, name, category, push, fails) ==
    LET args == [name |-> name, category |-> category, commit |-> TRUE, push |-> push]
        out == ContributeOutcome(parts, setup, args, fails)
    IN  /\ cli' = [cmd |-> "contribute", args |-> args, fails |-> fails, parts |-> parts,
                   setup |-> setup, log |-> out.log, ret |-> out.ret,
                   committed |-> out.committed, pushed |-> out.pushed,
                   summary |-> out.summary, says_committed |-> out.says_committed,
                   says_pushed |-> out.says_pushed]
        /\ UNCHANGED <<file, now, last, redeemed, left, procVars, draw, bootVars>>

\* An invocation of the program runs the one command of its command line.
NoCommandYet == cli = NoCommand

NextXwgit ==
    \/ NoCommandYet /\ \E env \in FetchEnvs : FetchCommand(env)
    \/ NoCommandYet /\
          \E name \in ToolNames, category \in Categories, commit, push \in BOOLEAN,
             fails \in SUBSET AddToolOps :
             AddToolCommand(name, category, commit, push, fails)
    \/ NoCommandYet /\
          \E parts \in 1 .. 3, setup \in BOOLEAN, name \in ToolNames,
             category \in Categories, push \in BOOLEAN, fails \in SUBSET AddToolOps :
             ContributeCommand(parts, setup, name, category, push, fails)

SpecXwgit == Init /\ [][NextXwgit]_vars

\* C26 (as claimed): the summary of contribute_command says "Committed: Yes"
\* only when the git commit of the created tool files succeeded, and
\* "Pushed: Yes" only when --push was given and the git push succeeded.
C26_SummaryTruthful ==
    (cli.cmd = "contribute" /\ cli.summary) =>
        /\ cli.says_committed => cli.committed
        /\ cli.says_pushed => (cli.args.push /\ cli.pushed)

\* C29: add_tool_command rejects a tool name that does not match
\* ^[a-z0-9_-]+$ or a category outside {utility, search, integration,
\* analysis}: it returns False before any directory or file is created and
\* before any git command runs.
C29_RejectsBadArguments ==
    (/\ cli.cmd = "add-tool"
     /\ \/ ~ReMatch(cli.args.name)
        \/ cli.args.category \notin {"utility", "search", "integration", "analysis"})
        => /\ cli.ret = FALSE
           /\ \A i \in 1 .. Len(cli.log) :
                 cli.log[i] \in {"print_invalid_name", "print_invalid_category"}

\* C29 witness: add_tool_command was given a well-formed name and a category
\* outside the four.
C29_Witness ==
    /\ cli.cmd = "add-tool"
    /\ ReMatch(cli.args.name)
    /\ cli.args.category = "misc"
    /\ cli.ret = FALSE

\* ------------------------------------------------ xwgit_bootstrap.py

\* Option values are tuples of characters; the empty tuple stands for a
\* missing or empty value (None and '' are both false in Python).

\* Tokens given with --token.
GivenTokens == {<<"t">>, <<"t", " ">>, <<"%", "%">>, <<"%">>, <<>>}

\* What the team config holds at an invocation.
TeamConfigs ==
    {[token |-> <<>>, owner |-> <<>>, repo |-> <<>>],
     [token |-> <<"u">>, owner |-> <<"p">>, repo |-> <<"r">>],
     [token |-> <<>>, owner |-> <<"p">>, repo |-> <<>>]}

\* What the GITHUB_TOKEN environment variable holds at an invocation.
EnvTokens == {<<>>, <<"e">>}

\* Values of --owner and of --repo.
GivenOwners == {<<>>, <<"o">>}

GivenRepos == {<<>>, <<"r">>}

\* Python's `a or b`.
Or(a, b) == IF a # <<>> THEN a ELSE b

\* str.strip() of surrounding whitespace, as configparser applies it to every
\* option value it reads from the file.
RECURSIVE LStrip(_)
LStrip(v) == IF v # <<>> /\ Head(v) \in {" ", "\t", "\n"} THEN LStrip(Tail(v)) ELSE v

RECURSIVE RStrip(_)
RStrip(v) ==
    IF v # <<>> /\ v[Len(v)] \in {" ", "\t", "\n"}
    THEN RStrip(SubSeq(v, 1, Len(v) - 1))
    ELSE v

Strip(v) == RStrip(LStrip(v))

\* BasicInterpolation.before_set accepts a value whose every % is doubled.
RECURSIVE PercentOk(_)
PercentOk(v) ==
    IF v = <<>> THEN TRUE
    ELSE IF Head(v) # "%" THEN PercentOk(Tail(v))
    ELSE Len(v) >= 2 /\ v[2] = "%" /\ PercentOk(Tail(Tail(v)))

\* BasicInterpolation.before_get: %% is read as %.
RECURSIVE Unescape(_)
Unescape(v) ==
    IF v = <<>> THEN <<>>
    ELSE IF Head(v) = "%" /\ Len(v) >= 2 /\ v[2] = "%"
    THEN <<"%">> \o Unescape(Tail(Tail(v)))
    ELSE <<Head(v)>> \o Unescape(Tail(v))

\* self.config.get(section, option, fallback=None) in a process that loaded
\* the file: the value written, stripped by the parser and interpolated.
ConfigGet(raw) == Unescape(Strip(raw))

\* _init_from_config: the saved config first, then the team config, then,
\* for the token, the environment.
InitFromConfig(f, team, env) ==
    [token |-> Or(ConfigGet(f.token), Or(team.token, env)),
     owner |-> Or(ConfigGet(f.owner), team.owner),
     repo |-> Or(ConfigGet(f.name), team.repo)]

\* _validate_setup
ValidateSetup(r) == r.token # <<>> /\ r.owner # <<>> /\ r.repo # <<>>

\* _get_github_token, then --token: team config, saved config, environment,
\* the token given.
GetGithubToken(f, team, env, given) ==
    Or(team.token, Or(ConfigGet(f.token), Or(env, given)))

\* cmd_init up to the end: the values it settled on, whether it wrote the
\* config file, and whether it completed (it leaves by sys.exit(1) or by the
\* ValueError of a config assignment otherwise).  `access` is the answer of
\* the repository request, `clone` that of git clone.
BootInitOutcome(f, args, team, env, access, clone) ==
    LET token == GetGithubToken(f, team, env, args.token)
        owner == Or(args.owner, Or(team.owner, ConfigGet(f.owner)))
        repo == Or(args.repo, Or(team.repo, ConfigGet(f.name)))
        Out(saved, ok) == [token |-> token, owner |-> owner, repo |-> repo,
                           saved |-> saved, ok |-> ok]
    IN  IF token = <<>> THEN Out(FALSE, FALSE)
        ELSE IF ~PercentOk(token) THEN Out(FALSE, FALSE)
        ELSE IF owner = <<>> \/ repo = <<>> THEN Out(FALSE, FALSE)
        ELSE IF ~access THEN Out(FALSE, FALSE)
        ELSE IF ~PercentOk(owner) \/ ~PercentOk(repo) THEN Out(FALSE, FALSE)
        ELSE IF ~clone THEN Out(TRUE, FALSE)
        ELSE Out(TRUE, TRUE)

\* xwgit_bootstrap.py init
BootInit(args, team, env, access, clone) ==
    LET out == BootInitOutcome(ini, args, team, env, access, clone)
    IN  /\ cli' = [cmd |-> "boot-init", token |-> out.token, owner |-> out.owner,
                   repo |-> out.repo, saved |-> out.saved, ok |-> out.ok]
        /\ IF out.saved
           THEN /\ ini' = [token |-> out.token, owner |-> out.owner, name |-> out.repo]
                /\ validated' = [ok |-> out.ok, token |-> out.token, owner |-> out.owner,
                                 repo |-> out.repo]
           ELSE UNCHANGED bootVars
        /\ UNCHANGED <<file, now, last, redeemed, left, procVars, draw>>

\* A later invocation of a command that starts with _init_from_config and
\* _validate_setup (issue get, branch create, commit, push).
BootLater(team, env) ==
    LET r == InitFromConfig(ini, team, env)
    IN  /\ cli' = [cmd |-> "boot-later", token |-> r.token, owner |-> r.owner,
                   repo |-> r.repo, setup |-> ValidateSetup(r)]
        /\ UNCHANGED <<file, now, last, redeemed, left, procVars, draw, bootVars>>

\* cmd_pr_create(args) once the setup is validated, `failing` being the
\* operation that fails when run.  `hasBody` says whether args has the
\* attributes body and testing: the parser of `pr create` defines them, the
\* Namespace cmd_finalize builds does not, and reading args.body then raises
\* AttributeError.
PrCreateOutcome(hasBody, issue, failing) ==
    LET branch == <<"pr_rev_parse">>
        body == IF issue THEN branch \o <<"get_issue">> ELSE branch
    IN  IF failing = "pr_rev_parse"
        THEN [log |-> branch \o <<"print_branch_error">>, raised |-> FALSE, created |-> FALSE]
        ELSE IF ~hasBody
        THEN [log |-> body, raised |-> TRUE, created |-> FALSE]
        ELSE IF failing = "post"
        THEN [log |-> body \o <<"post", "print_pr_failed">>, raised |-> FALSE,
              created |-> FALSE]
        ELSE [log |-> body \o <<"post", "print_pr_created">>, raised |-> FALSE,
              created |-> TRUE]

\* The operation of cmd_finalize and cmd_pr_create that fails in a run, if any.
FinalizeOps == {"none", "git_add", "git_commit", "git_push", "pr_rev_parse", "post"}

\* XwGitBootstrap.cmd_finalize(args): the operations it runs in order, whether
\* it prints "Finalization complete", whether a pull request was created.
BootFinalizeOutcome(setup, issue, failing) ==
    LET pr == PrCreateOutcome(FALSE, issue, failing)
        Out(log, done, created) == [log |-> log, complete |-> done, created |-> created]
    IN  IF ~setup THEN Out(<<"print_not_set_up">>, FALSE, FALSE)
        ELSE IF failing = "git_add" THEN Out(<<"git_add", "print_error">>, FALSE, FALSE)
        ELSE IF failing = "git_commit"
        THEN Out(<<"git_add", "git_commit", "print_error">>, FALSE, FALSE)
        ELSE IF failing = "git_push"
        THEN Out(<<"git_add", "git_commit", "git_push", "print_error">>, FALSE, FALSE)
        ELSE IF ~issue
        THEN Out(<<"git_add", "git_commit", "git_push", "print_complete">>, TRUE, FALSE)
        ELSE IF pr.raised
        THEN Out(<<"git_add", "git_commit", "git_push">> \o pr.log \o <<"print_error">>,
                 FALSE, FALSE)
        ELSE Out(<<"git_add", "git_commit", "git_push">> \o pr.log \o <<"print_complete">>,
                 TRUE, pr.created)

\* xwgit_bootstrap.py finalize <message> [--issue N]
BootFinalize(issue, team, env, failing) ==
    LET out == BootFinalizeOutcome(ValidateSetup(InitFromConfig(ini, team, env)),
                                   issue, failing)
    IN  /\ cli' = [cmd |-> "boot-finalize", issue |-> issue, failing |-> failing,
                   log |-> out.log, complete |-> out.complete, created |-> out.created]
        /\ UNCHANGED <<file, now, last, redeemed, left, procVars, draw, bootVars>>

\* xwgit_bootstrap.py pr create --title T [--issue N]
BootPrCreate(issue, team, env, failing) ==
    LET setup == ValidateSetup(InitFromConfig(ini, team, env))
        out == PrCreateOutcome(TRUE, issue, failing)
    IN  /\ cli' = [cmd |-> "boot-pr-create", issue |-> issue, failing |-> failing,
                   log |-> IF setup THEN out.log ELSE <<"print_not_set_up">>,
                   created |-> setup /\ out.created]
        /\ UNCHANGED <<file, now, last, redeemed, left, procVars, draw, bootVars>>

NextBoot ==
    \/ \E token \in GivenTokens, owner \in GivenOwners, repo \in GivenRepos,
          team \in TeamConfigs, env \in EnvTokens, access, clone \in BOOLEAN :
          BootInit([token |-> token, owner |-> owner, repo |-> repo],
                   team, env, access, clone)
    \/ \E team \in TeamConfigs, env \in EnvTokens : BootLater(team, env)
    \/ \E issue \in BOOLEAN, team \in TeamConfigs, env \in EnvTokens,
          failing \in FinalizeOps : BootFinalize(issue, team, env, failing)
    \/ \E issue \in BOOLEAN, team \in TeamConfigs, env \in EnvTokens,
          failing \in {"none", "pr_rev_parse", "post"} :
          BootPrCreate(issue, team, env, failing)

SpecBoot == Init /\ [][NextBoot]_vars

\* C27 (as claimed): cmd_finalize runs stage, commit, push and, when an issue
\* is given, pull-request creation in that order, stops at the first step that
\* fails, and prints "Finalization complete" only when every step it ran
\* succeeded, the pull-request creation included.
C27_CompleteOnlyIfAllDone ==
    cli.cmd = "boot-finalize" =>
        /\ IsPrefix(SelectSeq(cli.log, LAMBDA e : e \in {"git_add", "git_commit", "git_push"}),
                    <<"git_add", "git_commit", "git_push">>)
        /\ cli.complete =>
              /\ cli.failing \notin {"git_add", "git_commit", "git_push"}
              /\ cli.issue => cli.created

\* C30 (as claimed): after cmd_init completed, _init_from_config of a later
\* invocation resolves the token, owner and repository name that cmd_init
\* validated and saved, whatever the team config and GITHUB_TOKEN hold then.
C30_SameAsValidated ==
    (cli.cmd = "boot-later" /\ validated.ok) =>
        /\ cli.token = validated.token
        /\ cli.owner = validated.owner
        /\ cli.repo = validated.repo

\* ------------------------------------------------ xwgit-core.py: cmd_finalize

\* Longest output of `git status --porcelain` followed, in lines.
MaxLines == 2

\* A line of `git status --porcelain`: its first character, whether the path
\* ends in .py, and what reading and compiling the file gives.
StatusLines == [x : {"M", "D", " "}, py : BOOLEAN, code : {"ok", "syntax", "unreadable"}]

\* Outputs of `git status --porcelain`.
Statuses == UNION {[1 .. n -> StatusLines] : n \in 0 .. MaxLines}

\* validate_changes(): True when it found no issue.  An issue is an empty
\* status or a syntax error in a changed Python file whose line does not begin
\* with D; everything else it finds is a warning.
validate_changes(status) ==
    /\ status # <<>>
    /\ \A i \in 1 .. Len(status) :
          ~(status[i].x # "D" /\ status[i].py /\ status[i].code = "syntax")

\* Mutant: cmd_finalize goes on whatever validate_changes returned.
CoreFinalizeOutcome_NoGate(force, status, git) ==
    IF ~git
    THEN [log |-> <<"git_status">>, raised |-> TRUE]
    ELSE [log |-> <<"git_status", "git_add", "git_commit", "rev_parse">>, raised |-> FALSE]

\* cmd_finalize(args) of xwgit-core: the operations it runs in order and
\* whether an exception leaves it (`git status` failing inside validate_changes).
CoreFinalizeOutcome(force, status, git) ==
    IF ~git
    THEN [log |-> <<"git_status">>, raised |-> TRUE]
    ELSE IF validate_changes(status)
    THEN [log |-> <<"git_status", "git_add", "git_commit", "rev_parse">>, raised |-> FALSE]
    ELSE IF force
    THEN [log |-> <<"git_status", "print_fix_issues", "print_force",
                    "git_add", "git_commit", "rev_parse">>,
          raised |-> FALSE]
    ELSE [log |-> <<"git_status", "print_fix_issues", "print_tip">>, raised |-> FALSE]

\* xwgit finalize <message> [--force]
CmdFinalize(force, status, git) ==
    /\ cli' = [cmd |-> "finalize", force |-> force, status |-> status, git |-> git,
               log |-> CoreFinalizeOutcome(force, status, git).log,
               raised |-> CoreFinalizeOutcome(force, status, git).raised]
    /\ UNCHANGED <<file, now, last, redeemed, left, procVars, draw, bootVars>>

NextFinalize ==
    NoCommandYet /\
        \E force, git \in BOOLEAN, status \in Statuses : CmdFinalize(force, status, git)

SpecFinalize == Init /\ [][NextFinalize]_vars

\* C28: cmd_finalize of xwgit-core runs git add and git commit only when
\* validate_changes reported no issues or --force was given; when validation
\* reports an issue and --force is absent it returns with nothing staged or
\* committed.
C28_GatedByValidation ==
    cli.cmd = "finalize" =>
        /\ (InLog(cli.log, "git_add") \/ InLog(cli.log, "git_commit"))
              => (validate_changes(cli.status) \/ cli.force)
        /\ (cli.git /\ ~validate_changes(cli.status) /\ ~cli.force)
              => (/\ ~cli.raised
                  /\ ~InLog(cli.log, "git_add")
                  /\ ~InLog(cli.log, "git_commit"))

\* C28 witness: validation reported a syntax error and --force was not given.
C28_Witness ==
    /\ cli.cmd = "finalize"
    /\ cli.git
    /\ cli.status # <<>>
    /\ ~validate_changes(cli.status)
    /\ ~cli.force
    /\ ~cli.raised

====
